---- MODULE Spec2Model ----
(***************************************************************************)
(* PipelineManager of src/main.py: the per-document progress ledger        *)
(* (state["documents"]), its persisted copy (pipeline_state.json), the     *)
(* artifact files of the three stages, the three stage executors and the   *)
(* two orchestrator entry points.                                          *)
(*                                                                         *)
(* The external collaborators (HTTP transfer, agentic-doc parse, Mistral)  *)
(* and file I/O are inputs: every executor action draws their outcome      *)
(* from a small set.  datetime.now() is the logical clock `now`.           *)
(***************************************************************************)
EXTENDS Integers, Sequences, FiniteSets, TLC

VARIABLES
    docs,     \* self.state["documents"] of the running process
    disk,     \* content of pipeline_state.json
    fs,       \* artifact files: path -> "ok" | "partial"
    proc,     \* "up" | "down" | "load_error" (position of the process)
    now,      \* logical clock behind datetime.now()
    run,      \* orchestrator: position in process_all_documents[_from_json]
    last,     \* the last call of the public API and what it returned
    removed,  \* how many artifact files the environment has deleted
    succeeded, \* <<doc_id, step>> whose external call has returned successfully
    content,  \* JSON content of the extract and final artifacts: path -> value
    service,  \* what the extraction and structuring services last answered
    other     \* a second PipelineManager open on the same work directory

vars == <<docs, disk, fs, proc, now, run, last, removed, succeeded, content, service,
          other>>

(***************************************************************************)
(* Bounds                                                                  *)
(***************************************************************************)
\* datetime.now() values 0..MaxClock: the clock advances with each
\* update_step_status, which is disabled when the clock is exhausted
MaxClock == 4
\* longest input list given to an orchestrator entry point
MaxDocs == 2
\* how many artifact files the environment may delete
MaxRemovals == 1
\* longest list of chunks the extraction service returns for a document
MaxChunks == 2
\* largest 0-indexed page number the extraction service reports
MaxExtPage == 1
\* longest grounding list of a chunk
MaxGroundings == 1
\* longest grounding list of a chunk in SpecGroundings
MaxRepeats == 2

(***************************************************************************)
(* Values                                                                  *)
(***************************************************************************)
PENDING == "pending"
DOWNLOADED == "downloaded"
COMPLETED == "completed"
FAILED == "failed"
ProcessingStatus ==
    {PENDING, DOWNLOADED, "agentic_processed", "transformed", COMPLETED, FAILED}

Steps == {"download", "agentic_process", "transform"}
StepOrder == <<"download", "agentic_process", "transform">>

None == "None"
NoTime == -1

Urls == {"u1", "u2"}
\* caller-supplied doc_id arguments of add_document
ExplicitIds == {"x1"}
\* hashlib.md5(url.encode()).hexdigest()[:12]
_get_document_id(url) == IF url = "u1" THEN "h1" ELSE "h2"
Ids == {_get_document_id(u) : u \in Urls} \cup ExplicitIds

\* File names.  PdfNames are the names n with n.lower().endswith('.pdf').
PdfNames == {"a.pdf", "b.pdf", "b.PDF", "c.pdf"}
Names == PdfNames \cup {"a", "b"}
\* n + '.pdf'
AddPdf(n) == CASE n = "a" -> "a.pdf" [] n = "b" -> "b.pdf" [] OTHER -> n
\* `if not name.lower().endswith('.pdf'): name = name + '.pdf'`
EnsurePdf(n) == IF n \in PdfNames THEN n ELSE AddPdf(n)
\* n.rsplit('.', 1)[0]
NoExt(n) ==
    CASE n \in {"a", "a.pdf"} -> "a"
      [] n \in {"b", "b.pdf", "b.PDF"} -> "b"
      [] OTHER -> "c"
\* urlparse(url).path.split('/')[-1]: u1 is ".../a.pdf", u2 is ".../b"
UrlLastSegment(url) == IF url = "u1" THEN "a.pdf" ELSE "b"
_get_filename_from_url(url) == EnsurePdf(UrlLastSegment(url))

\* original_filename arguments of add_document
ExplicitNames == {"a"}

\* JSON descriptors given to add_document_from_json
Descriptor(s, n, f) == [source |-> s, name |-> n, output_folder |-> f]
Descriptors ==
    { Descriptor("u1", "a", "ar"),
      Descriptor("u2", "b.PDF", "ar"),
      Descriptor("u1", "c.pdf", ""),
      Descriptor(None, "a", "ar"),
      Descriptor("u2", None, "ar") }

(***************************************************************************)
(* Artifact paths: _get_output_dirs and the three executors                *)
(***************************************************************************)
\* a path is <<output folder, directory, file name>>; a .json artifact is
\* named by its stem
NoPath == <<>>
_get_output_dirs(doc) ==
    [pdfs_dir |-> <<doc.metadata.output_folder, "pdfs">>,
     agentic_dir |-> <<doc.metadata.output_folder, "agentic_outputs">>,
     pdf_processed_dir |-> <<doc.metadata.output_folder, "pdf_processed">>]
pdf_path(doc) ==
    Append(_get_output_dirs(doc).pdfs_dir, doc.original_filename)
output_json_path(doc) ==
    Append(_get_output_dirs(doc).agentic_dir, NoExt(doc.original_filename))
pdf_processed_path(doc) ==
    Append(_get_output_dirs(doc).pdf_processed_dir, NoExt(doc.original_filename))
ExpectedPath(doc, step) ==
    CASE step = "download" -> pdf_path(doc)
      [] step = "agentic_process" -> output_json_path(doc)
      [] step = "transform" -> pdf_processed_path(doc)

\* `dir.mkdir(parents=True, exist_ok=True)` (lines 141-143) cannot fail for a
\* directory that exists.  Every artifact was written after a call of
\* _get_output_dirs that created the three directories of its output folder:
\* creation can only fail while the folder holds no artifact.
FolderHoldsFile(f, folder) == \E q \in DOMAIN f : q[1] = folder
MkdirCanFail(doc, f) == ~FolderHoldsFile(f, doc.metadata.output_folder)
\* the outcomes of directory creation that can happen in a call
Possible(d, f, doc_id, out) ==
    out = "mkdir_fail" => (doc_id \in DOMAIN d /\ MkdirCanFail(d[doc_id], f))

WriteFile_Nothing(f, p, kind) == f
WriteFile(f, p, kind) == [q \in DOMAIN f \cup {p} |-> IF q = p THEN kind ELSE f[q]]

(***************************************************************************)
(* The state file: _load_state and _save_state                             *)
(***************************************************************************)
EmptyDocs == <<>>
\* what pipeline_state.json can hold
FileKinds == {"absent", "garbled", "undecodable", "not_dict", "no_documents", "state"}
StateFile(d) == [kind |-> "state", documents |-> d]
OtherFile(k) == [kind |-> k, documents |-> EmptyDocs]

\* open() + json.load(): the value parsed, or the exception raised
ReadJson(file) ==
    CASE file.kind = "garbled" -> "JSONDecodeError"
      [] file.kind = "undecodable" -> "UnicodeDecodeError"
      [] OTHER -> "value"
Caught == {"JSONDecodeError", "IOError"}
FreshState == [raised |-> FALSE, documents |-> EmptyDocs]
_load_state(file) ==
    IF file.kind = "absent" THEN FreshState
    ELSE IF ReadJson(file) = "value"
         THEN IF file.kind = "state"
              THEN [raised |-> FALSE, documents |-> file.documents]
              ELSE FreshState
         ELSE IF ReadJson(file) \in Caught
              THEN FreshState
              ELSE [raised |-> TRUE, documents |-> EmptyDocs]

\* open(state_file, 'w') truncates, json.dump then writes in place.
\* crash: "no" | "before" (the process dies before open) | "during" (it dies
\* between open and the end of json.dump)
SaveCrashes == {"no", "before", "during"}
AllCrashes == SaveCrashes \cup {"between"}
_save_state(d, file, crash) ==
    CASE crash = "no" -> StateFile(d)
      [] crash = "before" -> file
      [] crash = "during" -> OtherFile("garbled")

(***************************************************************************)
(* Records and the registry: add_document, add_document_from_json          *)
(***************************************************************************)
NewRecord(url, name, folder, t) ==
    [url |-> url,
     original_filename |-> name,
     metadata |-> [output_folder |-> folder],
     status |-> PENDING,
     created_at |-> t,
     steps |-> [s \in Steps |-> [status |-> PENDING, timestamp |-> NoTime]],
     files |-> [s \in Steps |-> NoPath],
     errors |-> <<>>]

Put(d, id, rec) == [k \in DOMAIN d \cup {id} |-> IF k = id THEN rec ELSE d[k]]

\* add_document(url, doc_id, original_filename): [id returned, documents after,
\* whether _save_state ran]
add_document(d, url, doc_id, original_filename, t) ==
    LET id == IF doc_id = None THEN _get_document_id(url) ELSE doc_id
        name == IF original_filename = None
                THEN _get_filename_from_url(url)
                ELSE original_filename
    IN  IF id \notin DOMAIN d
        THEN [ret |-> id, d |-> Put(d, id, NewRecord(url, name, "", t)), saved |-> TRUE]
        ELSE [ret |-> id, d |-> d, saved |-> FALSE]

add_document_from_json_NoValidation(d, doc_info, t) ==
    LET id == _get_document_id(doc_info.source)
    IN  IF id \in DOMAIN d
        THEN [ret |-> id, d |-> d, saved |-> FALSE]
        ELSE [ret |-> id,
              d |-> Put(d, id, NewRecord(doc_info.source, doc_info.name,
                                         doc_info.output_folder, t)),
              saved |-> TRUE]
add_document_from_json(d, doc_info, t) ==
    IF doc_info.source = None \/ doc_info.name = None
    THEN [ret |-> None, d |-> d, saved |-> FALSE]
    ELSE LET id == _get_document_id(doc_info.source)
         IN  IF id \in DOMAIN d
             THEN [ret |-> id, d |-> d, saved |-> FALSE]
             ELSE [ret |-> id,
                   d |-> Put(d, id, NewRecord(doc_info.source, EnsurePdf(doc_info.name),
                                              doc_info.output_folder, t)),
                   saved |-> TRUE]

(***************************************************************************)
(* update_step_status                                                      *)
(***************************************************************************)
\* lines 253-259: the overall status from the step statuses; `old` stays when
\* no branch applies
OverallStatus_AllFailed(all_steps, old) ==
    IF \A s \in Steps : all_steps[s] = COMPLETED
    THEN COMPLETED
    ELSE IF \A s \in Steps : all_steps[s] = FAILED
         THEN FAILED
         ELSE IF \A s \in Steps : all_steps[s] \in {PENDING, COMPLETED}
              THEN IF \A s \in Steps : all_steps[s] # PENDING
                   THEN DOWNLOADED
                   ELSE PENDING
              ELSE old
OverallStatus(all_steps, old) ==
    IF \A s \in Steps : all_steps[s] = COMPLETED
    THEN COMPLETED
    ELSE IF \E s \in Steps : all_steps[s] = FAILED
         THEN FAILED
         ELSE IF \A s \in Steps : all_steps[s] \in {PENDING, COMPLETED}
              THEN IF \A s \in Steps : all_steps[s] # PENDING
                   THEN DOWNLOADED
                   ELSE PENDING
              ELSE old

\* the record after update_step_status(doc_id, step, status, file_path, error)
\* at time t (before _save_state)
UpdatedRecord_NoError(doc, step, status, file_path, error, t) ==
    LET steps1 == [doc.steps EXCEPT ![step] = [status |-> status, timestamp |-> t]]
    IN  [doc EXCEPT !.steps = steps1,
                    !.status = OverallStatus([s \in Steps |-> steps1[s].status], doc.status)]
UpdatedRecord(doc, step, status, file_path, error, t) ==
    LET steps1 == [doc.steps EXCEPT ![step] = [status |-> status, timestamp |-> t]]
        files1 == IF file_path # NoPath
                  THEN [doc.files EXCEPT ![step] = file_path]
                  ELSE doc.files
        errors1 == IF error # None
                   THEN Append(doc.errors, [step |-> step, error |-> error, timestamp |-> t])
                   ELSE doc.errors
    IN  [doc EXCEPT !.steps = steps1,
                    !.files = files1,
                    !.errors = errors1,
                    !.status = OverallStatus([s \in Steps |-> steps1[s].status], doc.status)]

update_step_status_Restamp(d, doc_id, step, status, file_path, error, t) ==
    [d EXCEPT ![doc_id] =
        [UpdatedRecord(d[doc_id], step, status, file_path, error, t) EXCEPT !.created_at = t]]
update_step_status_All(d, doc_id, step, status, file_path, error, t) ==
    [id \in DOMAIN d |-> UpdatedRecord(d[id], step, status, file_path, error, t)]
update_step_status(d, doc_id, step, status, file_path, error, t) ==
    [d EXCEPT ![doc_id] = UpdatedRecord(d[doc_id], step, status, file_path, error, t)]

(***************************************************************************)
(* The stage executors.  Each operator gives the outcome of one call:      *)
(*   d       the in-memory documents after the call                        *)
(*   writes  the documents each _save_state of the call writes, in order   *)
(*   f       the artifact files after the call                             *)
(*   ret     "True" | "False" | "raise" (an exception leaves the executor) *)
(*   ext     whether the external collaborator was called                  *)
(*   ticks   how far the clock advanced                                    *)
(* `out` is what the collaborators and file I/O do in this call.           *)
(***************************************************************************)
Result(d, writes, f, ret, ext, ticks) ==
    [d |-> d, writes |-> writes, f |-> f, ret |-> ret, ext |-> ext, ticks |-> ticks]
\* add_document / add_document_from_json: _save_state after a record is created
Registered(r, f) ==
    Result(r.d, IF r.saved THEN <<r.d>> ELSE <<>>, f, r.ret, FALSE, 0)
Untouched(d, f, ret) == Result(d, <<>>, f, ret, FALSE, 0)
\* update_step_status as the executors call it: the ledger update, then
\* _save_state (line 261)
Updated_NoSave(d, f, doc_id, step, status, file_path, error, t, ext) ==
    LET d1 == update_step_status(d, doc_id, step, status, file_path, error, t)
    IN  Result(d1, <<>>, f, IF status = COMPLETED THEN "True" ELSE "False", ext, 1)
Updated(d, f, doc_id, step, status, file_path, error, t, ext) ==
    LET d1 == update_step_status(d, doc_id, step, status, file_path, error, t)
    IN  Result(d1, <<d1>>, f, IF status = COMPLETED THEN "True" ELSE "False", ext, 1)

DownloadOutcomes == {"ok", "transfer_fail", "write_fail", "mkdir_fail"}
download_pdf_NoSkip(d, f, doc_id, out, t) ==
    IF doc_id \notin DOMAIN d THEN Untouched(d, f, "False")
    ELSE IF out = "mkdir_fail" THEN Untouched(d, f, "raise")
    ELSE LET p == pdf_path(d[doc_id])
         IN  IF out = "ok"
             THEN Updated(d, WriteFile(f, p, "ok"), doc_id, "download",
                          COMPLETED, p, None, t, TRUE)
             ELSE Updated(d, f, doc_id, "download", FAILED, NoPath,
                          "Error descargando PDF", t, TRUE)
download_pdf(d, f, doc_id, out, t) ==
    IF doc_id \notin DOMAIN d THEN Untouched(d, f, "False")
    ELSE IF out = "mkdir_fail" THEN Untouched(d, f, "raise")
    ELSE LET p == pdf_path(d[doc_id])
         IN  IF p \in DOMAIN f
             THEN Updated(d, f, doc_id, "download", COMPLETED, p, None, t, FALSE)
             ELSE CASE out = "ok" ->
                         Updated(d, WriteFile(f, p, "ok"), doc_id, "download",
                                 COMPLETED, p, None, t, TRUE)
                    [] out = "transfer_fail" ->
                         Updated(d, f, doc_id, "download", FAILED, NoPath,
                                 "Error descargando PDF", t, TRUE)
                    [] out = "write_fail" ->
                         Updated(d, WriteFile(f, p, "partial"), doc_id, "download",
                                 FAILED, NoPath, "Error descargando PDF", t, TRUE)

AgenticOutcomes == {"ok", "parse_fail", "write_fail", "mkdir_fail"}
process_with_agentic_doc_NoPrecondition(d, f, doc_id, out, t) ==
    IF doc_id \notin DOMAIN d THEN Untouched(d, f, "False")
    ELSE LET p == output_json_path(d[doc_id])
         IN  IF p \in DOMAIN f
             THEN Updated(d, f, doc_id, "agentic_process", COMPLETED, p, None, t, FALSE)
             ELSE IF out = "ok"
                  THEN Updated(d, WriteFile(f, p, "ok"), doc_id, "agentic_process",
                               COMPLETED, p, None, t, TRUE)
                  ELSE Updated(d, f, doc_id, "agentic_process", FAILED, NoPath,
                               "Error procesando con Agentic-doc", t, TRUE)
process_with_agentic_doc_NoSkip(d, f, doc_id, out, t) ==
    IF doc_id \notin DOMAIN d THEN Untouched(d, f, "False")
    ELSE IF d[doc_id].steps["download"].status # COMPLETED THEN Untouched(d, f, "False")
    ELSE IF out = "mkdir_fail" THEN Untouched(d, f, "raise")
    ELSE LET p == output_json_path(d[doc_id])
         IN  IF out = "ok"
             THEN Updated(d, WriteFile(f, p, "ok"), doc_id, "agentic_process",
                          COMPLETED, p, None, t, TRUE)
             ELSE Updated(d, f, doc_id, "agentic_process", FAILED, NoPath,
                          "Error procesando con Agentic-doc", t, TRUE)
process_with_agentic_doc(d, f, doc_id, out, t) ==
    IF doc_id \notin DOMAIN d THEN Untouched(d, f, "False")
    ELSE IF d[doc_id].steps["download"].status # COMPLETED THEN Untouched(d, f, "False")
    ELSE IF out = "mkdir_fail" THEN Untouched(d, f, "raise")
    ELSE LET p == output_json_path(d[doc_id])
             pdf == d[doc_id].files["download"]
         IN  IF p \in DOMAIN f
             THEN Updated(d, f, doc_id, "agentic_process", COMPLETED, p, None, t, FALSE)
             ELSE IF out = "parse_fail" \/ pdf \notin DOMAIN f
                  THEN Updated(d, f, doc_id, "agentic_process", FAILED, NoPath,
                               "Error procesando con Agentic-doc", t, TRUE)
                  ELSE IF out = "ok"
                       THEN Updated(d, WriteFile(f, p, "ok"), doc_id, "agentic_process",
                                    COMPLETED, p, None, t, TRUE)
                       ELSE Updated(d, WriteFile(f, p, "partial"), doc_id,
                                    "agentic_process", FAILED, NoPath,
                                    "Error procesando con Agentic-doc", t, TRUE)

TransformOutcomes == {"ok", "write_fail", "mkdir_fail"}
\* lines 505-506: doc["status"] = ProcessingStatus.COMPLETED
MarkCompleted(d, doc_id) == [d EXCEPT ![doc_id].status = COMPLETED]
transform_to_pdf_processed(d, f, doc_id, out, t) ==
    IF doc_id \notin DOMAIN d THEN Untouched(d, f, "False")
    ELSE IF d[doc_id].steps["agentic_process"].status # COMPLETED
         THEN Untouched(d, f, "False")
    ELSE IF out = "mkdir_fail" THEN Untouched(d, f, "raise")
    ELSE LET p == pdf_processed_path(d[doc_id])
             agentic_json_path == d[doc_id].files["agentic_process"]
         IN  IF p \in DOMAIN f
             THEN Updated(d, f, doc_id, "transform", COMPLETED, p, None, t, FALSE)
             ELSE IF agentic_json_path \notin DOMAIN f
                  THEN Updated(d, f, doc_id, "transform", FAILED, NoPath,
                               "Error transformando", t, FALSE)
                  ELSE IF f[agentic_json_path] # "ok"
                       THEN Updated(d, f, doc_id, "transform", FAILED, NoPath,
                                    "Error transformando", t, FALSE)
                       ELSE IF out = "ok"
                            THEN LET d1 == update_step_status(d, doc_id, "transform",
                                                              COMPLETED, p, None, t)
                                 IN  Result(MarkCompleted(d1, doc_id),
                                            <<d1, MarkCompleted(d1, doc_id)>>,
                                            WriteFile(f, p, "ok"), "True", TRUE, 1)
                            ELSE Updated(d, WriteFile(f, p, "partial"), doc_id,
                                         "transform", FAILED, NoPath,
                                         "Error transformando", t, TRUE)

Outcomes(step) ==
    CASE step = "download" -> DownloadOutcomes
      [] step = "agentic_process" -> AgenticOutcomes
      [] step = "transform" -> TransformOutcomes
Executor(step, d, f, doc_id, out, t) ==
    CASE step = "download" -> download_pdf(d, f, doc_id, out, t)
      [] step = "agentic_process" -> process_with_agentic_doc(d, f, doc_id, out, t)
      [] step = "transform" -> transform_to_pdf_processed(d, f, doc_id, out, t)

(***************************************************************************)
(* Artifact content: the extract artifact built from the result of parse   *)
(* (lines 349-436) and the final artifact built by _mistral_transform      *)
(* (lines 517-709).  A text is a sequence of characters.  Bounding boxes,  *)
(* the markdown text and the timestamps of the artifacts are left out.     *)
(***************************************************************************)
SeqsUpTo(S, n) == UNION {[1..k -> S] : k \in 0..n}
\* a grounding object without a page attribute / a grounding dict without
\* a "page" key
NoPageNum == -1
ChunkTypes == {"text", "figure"}
Texts == {<<>>, <<" ">>, <<"t">>}
ExtGroundings == SeqsUpTo((0..MaxExtPage) \cup {NoPageNum}, MaxGroundings)
\* result[0].chunks as parse returns them: pages are 0-indexed
ExtChunks == [chunk_type : ChunkTypes, text : Texts, grounding : ExtGroundings]
ParseResults == SeqsUpTo(ExtChunks, MaxChunks)

\* "figure" in chunk_type_str.lower()
IsFigure(chunk) == chunk.chunk_type = "figure"
\* grounding.page + 1
ToOneIndexed_Identity(page) == page
ToOneIndexed(page) == page + 1
grounding_data(grounding) ==
    [page |-> IF grounding = NoPageNum THEN NoPageNum ELSE ToOneIndexed(grounding)]
grounding_list(groundings) ==
    [k \in 1..Len(groundings) |-> grounding_data(groundings[k])]
\* enumerate(...)
Enumerate(seq) == [k \in 1..Len(seq) |-> [i |-> k - 1, item |-> seq[k]]]
chunk_data(i, chunk) ==
    [id |-> <<"chunk", i>>, content |-> chunk.text, type |-> chunk.chunk_type,
     grounding |-> grounding_list(chunk.grounding)]
chunks_list(chunks) ==
    LET kept == SelectSeq(Enumerate(chunks), LAMBDA e : ~IsFigure(e.item))
    IN  [k \in 1..Len(kept) |-> chunk_data(kept[k].i, kept[k].item)]
figure_chunks(chunks) == SelectSeq(chunks, IsFigure)
figure_data(i, figure_chunk) ==
    [id |-> <<"figure", i>>, text |-> figure_chunk.text, type |-> figure_chunk.chunk_type,
     grounding |-> grounding_list(figure_chunk.grounding)]
agentic_output(doc_id, doc, chunks) ==
    LET figs == Enumerate(figure_chunks(chunks))
    IN  [metadata |-> [document_id |-> doc_id, source_url |-> doc.url,
                       total_chunks |-> Len(chunks_list(chunks)),
                       total_figures |-> Len(figs)],
         document |-> [id |-> doc_id, filename |-> doc.original_filename,
                       chunks |-> chunks_list(chunks),
                       figures |-> [k \in 1..Len(figs) |-> figure_data(figs[k].i, figs[k].item)]]]

\* ---- _mistral_transform
\* ground.get("page", 1)
PageOf(ground) == IF ground.page = NoPageNum THEN 1 ELSE ground.page
\* the pages a chunk or figure is filed under, one per grounding; page 1
\* when it has no grounding
PagesOf(unit) ==
    IF unit.grounding # <<>>
    THEN [k \in 1..Len(unit.grounding) |-> PageOf(unit.grounding[k])]
    ELSE <<1>>
RECURSIVE Filed(_)
Filed(units) ==
    IF units = <<>> THEN <<>>
    ELSE LET unit == units[Len(units)]
             pages == PagesOf(unit)
         IN  Filed(SubSeq(units, 1, Len(units) - 1))
                 \o [k \in 1..Len(pages) |-> [page |-> pages[k], unit |-> unit]]
GroupByPage(units) ==
    LET filed == Filed(units)
    IN  [page_num \in {filed[k].page : k \in 1..Len(filed)} |->
            LET here == SelectSeq(filed, LAMBDA e : e.page = page_num)
            IN  [k \in 1..Len(here) |-> here[k].unit]]
pages_dict(chunks) == GroupByPage(chunks)
figures_dict(figures) == GroupByPage(figures)
Max(S) == CHOOSE x \in S : \A y \in S : y <= x
\* max(pages_dict.keys()) if pages_dict else 1
total_pages(chunks, figures) ==
    IF DOMAIN pages_dict(chunks) # {} THEN Max(DOMAIN pages_dict(chunks)) ELSE 1
\* dict.get(page_num, [])
Get(dict, page_num) == IF page_num \in DOMAIN dict THEN dict[page_num] ELSE <<>>
\* "\n".join(parts)
RECURSIVE Join(_)
Join(parts) ==
    IF parts = <<>> THEN <<>>
    ELSE IF Len(parts) = 1 THEN parts[1]
    ELSE parts[1] \o <<"\n">> \o Join(Tail(parts))
page_text(page_chunks) == Join([k \in 1..Len(page_chunks) |-> page_chunks[k].content])
\* not text or not text.strip()
Whitespace == {" ", "\n"}
Blank_EmptyOnly(text) == text = <<>>
Blank(text) == \A k \in 1..Len(text) : text[k] \in Whitespace
\* text[:n]
Truncate(text, n) == SubSeq(text, 1, IF Len(text) < n THEN Len(text) ELSE n)
RawContentPage == 500
RawContentImage == 200

\* what one call of mistral_client.chat.complete and the json.loads of its
\* answer can do: a JSON record, an answer that is not JSON, an exception
MistralOutcomes == {"record", "garbled", "raise"}
\* the normalized record the structuring service returns for a text
ServiceRecord(text) ==
    [file_name |-> <<"from_service">>, description |-> "structured", ocr_contents |-> text]
\* None
NoRecord == [file_name |-> <<>>, description |-> "None", ocr_contents |-> <<>>]
\* an exception leaving the function
Raised == [file_name |-> <<>>, description |-> "raise", ocr_contents |-> <<>>]
EmptyPage(doc_name) ==
    [file_name |-> <<doc_name>>, description |-> "Empty page", ocr_contents |-> <<>>]
PageFallback(doc_name, text) ==
    [file_name |-> <<doc_name>>, description |-> "Page content from aeronautical document",
     ocr_contents |-> Truncate(text, RawContentPage)]
ImageFallback(text, index, page_num) ==
    [file_name |-> <<"imagen", page_num, index>>,
     description |-> "Image from aeronautical document",
     ocr_contents |-> Truncate(text, RawContentImage)]
_mistral_structure_page_NoFallback(doc_name, text, answer) ==
    IF Blank(text) THEN EmptyPage(doc_name)
    ELSE IF answer = "record" THEN ServiceRecord(text)
    ELSE Raised
_mistral_structure_page(doc_name, text, answer) ==
    IF Blank(text) THEN EmptyPage(doc_name)
    ELSE IF answer = "record" THEN ServiceRecord(text)
    ELSE PageFallback(doc_name, text)
_mistral_structure_image(text, index, page_num, answer) ==
    IF Blank(text) THEN NoRecord
    ELSE IF answer = "record" THEN ServiceRecord(text)
    ELSE ImageFallback(text, index, page_num)
\* the calls of the structuring service: <<"page", page_num, 0>> for a page,
\* <<"image", page_num, i>> for the i-th figure of a page
PageCall(page_num) == <<"page", page_num, 0>>
ImageCall(page_num, i) == <<"image", page_num, i>>
\* the calls of mistral_client.chat.complete in the order the loop of lines
\* 564-580 makes them: _mistral_structure_page calls for a page unless its text
\* is blank (line 619), _mistral_structure_image for a figure unless its text
\* is blank (line 669)
structure_page_calls(page_num, text) ==
    IF Blank(text) THEN <<>> ELSE <<[call |-> PageCall(page_num), text |-> text]>>
structure_image_calls(text, index, page_num) ==
    IF Blank(text) THEN <<>> ELSE <<[call |-> ImageCall(page_num, index), text |-> text]>>
RECURSIVE figure_calls(_, _, _)
figure_calls(page_figures, page_num, n) ==
    IF n = 0 THEN <<>>
    ELSE figure_calls(page_figures, page_num, n - 1)
             \o structure_image_calls(page_figures[n].text, n - 1, page_num)
RECURSIVE page_calls(_, _)
page_calls(agentic_json, page_num) ==
    IF page_num = 0 THEN <<>>
    ELSE LET page_chunks == Get(pages_dict(agentic_json.document.chunks), page_num)
             page_figures == Get(figures_dict(agentic_json.document.figures), page_num)
         IN  page_calls(agentic_json, page_num - 1)
                 \o structure_page_calls(page_num, page_text(page_chunks))
                 \o figure_calls(page_figures, page_num, Len(page_figures))
mistral_calls(agentic_json) ==
    page_calls(agentic_json,
               total_pages(agentic_json.document.chunks, agentic_json.document.figures))
Answer(answers, call) == IF call \in DOMAIN answers THEN answers[call] ELSE "raise"
page_obj(agentic_json, doc_name, page_num, answers) ==
    LET page_chunks == Get(pages_dict(agentic_json.document.chunks), page_num)
        text == page_text(page_chunks)
        page_figures == Get(figures_dict(agentic_json.document.figures), page_num)
        structured ==
            [k \in 1..Len(page_figures) |->
                _mistral_structure_image(page_figures[k].text, k - 1, page_num,
                                         Answer(answers, ImageCall(page_num, k - 1)))]
    IN  [page_number |-> page_num,
         text |-> text,
         structured_page_content |->
             _mistral_structure_page(doc_name, text, Answer(answers, PageCall(page_num))),
         structured_image_content |-> SelectSeq(structured, LAMBDA r : r # NoRecord)]
_mistral_transform(agentic_json, doc, answers) ==
    LET chunks == agentic_json.document.chunks
        figures == agentic_json.document.figures
        doc_name == NoExt(doc.original_filename)
        total == total_pages(chunks, figures)
    IN  [metadata |-> [document_name |-> doc_name,
                       total_pages |-> total,
                       source |-> agentic_json.metadata.source_url,
                       total_chunks |-> Len(chunks),
                       total_figures |-> Len(figures)],
         content |-> [page_num \in 1..total |-> page_obj(agentic_json, doc_name, page_num, answers)]]
\* an exception raised while structuring leaves _mistral_transform
Raises(pdf_processed) ==
    \E k \in 1..Len(pdf_processed.content) :
        \/ pdf_processed.content[k].structured_page_content = Raised
        \/ \E j \in 1..Len(pdf_processed.content[k].structured_image_content) :
               pdf_processed.content[k].structured_image_content[j] = Raised
\* the calls _mistral_transform makes for an extract artifact: one per page
\* with text, one per figure with text on a page of the range
MistralCalls(agentic_json) ==
    LET chunks == agentic_json.document.chunks
        figures == agentic_json.document.figures
        total == total_pages(chunks, figures)
    IN  {PageCall(p) : p \in {q \in 1..total : ~Blank(page_text(Get(pages_dict(chunks), q)))}}
        \cup UNION {{ImageCall(p, k - 1) :
                        k \in {j \in 1..Len(Get(figures_dict(figures), p)) :
                                 ~Blank(Get(figures_dict(figures), p)[j].text)}} :
                    p \in 1..total}

(***************************************************************************)
(* State machine                                                           *)
(***************************************************************************)
\* a call: the method, its argument, what it returned ("raise": an exception
\* left it; "before", "during", "between": the process died there, and `saving`
\* is the mapping it was about to persist), and whether it reached the
\* external collaborator
Call(op, arg, ret, ext, saving) ==
    [op |-> op, arg |-> arg, ret |-> ret, ext |-> ext, saving |-> saving]
NoCall == Call("none", "", "", FALSE, EmptyDocs)

\* the second manager: not constructed, or its self.state["documents"]
NotOpen == [open |-> FALSE, documents |-> EmptyDocs]
Open(d) == [open |-> TRUE, documents |-> d]
\* no service has answered yet
NoService == [parsed |-> <<>>, answers |-> <<>>, calls |-> <<>>]
Idle ==
    [kind |-> "idle", ids |-> <<>>, i |-> 1, stage |-> 1, results |-> <<>>,
     total |-> 0, snap |-> EmptyDocs, invoked |-> {}, external |-> {},
     calls |-> {}, fs0 |-> {}]
InProgress == run.kind # "idle" /\ run.i <= Len(run.ids)

\* PipelineManager.__init__ in an empty work directory
Init ==
    /\ docs = EmptyDocs
    /\ disk = OtherFile("absent")
    /\ fs = <<>>
    /\ proc = "up"
    /\ now = 0
    /\ run = Idle
    /\ last = NoCall
    /\ removed = 0
    /\ succeeded = {}
    /\ content = <<>>
    /\ service = NoService
    /\ other = NotOpen

\* The process state after a call whose outcome is res.  crash: "no", or where
\* the process dies: "before" or "during" the call's last _save_state, or
\* "between" the two _save_state of a call that saves twice.
Crashes(res) ==
    CASE Len(res.writes) = 0 -> {"no"}
      [] Len(res.writes) = 1 -> SaveCrashes
      [] Len(res.writes) = 2 -> AllCrashes
Written(res, crash) ==
    CASE Len(res.writes) = 0 -> disk
      [] Len(res.writes) = 1 -> _save_state(res.writes[1], disk, crash)
      [] Len(res.writes) = 2 /\ crash = "between" ->
             _save_state(res.writes[1], disk, "no")
      [] OTHER ->
             _save_state(res.writes[2], _save_state(res.writes[1], disk, "no"), crash)
\* the step an executor works on
StepOf(op) ==
    CASE op = "download_pdf" -> "download"
      [] op = "process_with_agentic_doc" -> "agentic_process"
      [] op = "transform_to_pdf_processed" -> "transform"
      [] OTHER -> None
\* an executor opens its artifact for writing only after its external call
\* has returned: requests.get (line 296), parse (line 347), _mistral_transform
\* (line 489)
Returned(res) == res.ext /\ DOMAIN res.f # DOMAIN fs
Effect(op, arg, res, crash) ==
    /\ crash \in Crashes(res)
    /\ res.ticks > 0 => now < MaxClock
    /\ fs' = res.f
    /\ succeeded' = IF Returned(res) THEN succeeded \cup {<<arg, StepOf(op)>>}
                                     ELSE succeeded
    /\ now' = now + res.ticks
    /\ disk' = Written(res, crash)
    /\ IF crash = "no"
       THEN /\ docs' = res.d
            /\ proc' = "up"
            /\ last' = Call(op, arg, res.ret, res.ext, EmptyDocs)
       ELSE /\ docs' = EmptyDocs
            /\ proc' = "down"
            /\ last' = Call(op, arg, crash, res.ext, res.writes[Len(res.writes)])

Ready == proc = "up" /\ ~InProgress

\* ---- direct calls of the registry
AddDocument(url, doc_id, original_filename, crash) ==
    /\ Ready
    /\ LET r == add_document(docs, url, doc_id, original_filename, now)
       IN  Effect("add_document", url, Registered(r, fs), crash)
    /\ run' = Idle
    /\ UNCHANGED <<removed, content, service, other>>

AddDocumentFromJson(doc_info, crash) ==
    /\ Ready
    /\ LET r == add_document_from_json(docs, doc_info, now)
       IN  Effect("add_document_from_json", doc_info.source, Registered(r, fs), crash)
    /\ run' = Idle
    /\ UNCHANGED <<removed, content, service, other>>

\* ---- direct calls of the stage executors
DownloadPdf(doc_id, out, crash) ==
    /\ Ready
    /\ Possible(docs, fs, doc_id, out)
    /\ Effect("download_pdf", doc_id, download_pdf(docs, fs, doc_id, out, now), crash)
    /\ run' = Idle
    /\ UNCHANGED <<removed, content, service, other>>

ProcessWithAgenticDoc(doc_id, out, crash) ==
    /\ Ready
    /\ Possible(docs, fs, doc_id, out)
    /\ Effect("process_with_agentic_doc", doc_id,
              process_with_agentic_doc(docs, fs, doc_id, out, now), crash)
    /\ run' = Idle
    /\ UNCHANGED <<removed, content, service, other>>

TransformToPdfProcessed(doc_id, out, crash) ==
    /\ Ready
    /\ Possible(docs, fs, doc_id, out)
    /\ Effect("transform_to_pdf_processed", doc_id,
              transform_to_pdf_processed(docs, fs, doc_id, out, now), crash)
    /\ run' = Idle
    /\ UNCHANGED <<removed, content, service, other>>

\* ---- a direct call of update_step_status, with the argument shapes the
\* executors use: a path with COMPLETED, an error with FAILED
StepStatuses == {PENDING, COMPLETED, FAILED}
UpdateStepStatus(doc_id, step, status, crash) ==
    /\ Ready
    /\ LET res ==
               IF doc_id \notin DOMAIN docs
               THEN Untouched(docs, fs, "raise")
               ELSE LET file_path == IF status = COMPLETED
                                     THEN ExpectedPath(docs[doc_id], step)
                                     ELSE NoPath
                        error == IF status = FAILED THEN "error" ELSE None
                        d1 == update_step_status(docs, doc_id, step, status,
                                                 file_path, error, now)
                    IN  Result(d1, <<d1>>, fs, "None", FALSE, 1)
       IN  Effect("update_step_status", doc_id, res, crash)
    /\ run' = Idle
    /\ UNCHANGED <<removed, content, service, other>>

\* ---- the orchestrator entry points
\* `[self.add_document(url) for url in urls]` and the registration loop of
\* process_all_documents_from_json: documents, doc_ids and clock afterwards
RECURSIVE RegisterUrls(_, _, _)
RegisterUrls(d, urls, t) ==
    IF urls = <<>> THEN [d |-> d, ids |-> <<>>, t |-> t, saved |-> FALSE]
    ELSE LET r == add_document(d, Head(urls), None, None, t)
             rest == RegisterUrls(r.d, Tail(urls), t)
         IN  [d |-> rest.d, ids |-> <<r.ret>> \o rest.ids, t |-> rest.t,
              saved |-> r.saved \/ rest.saved]

RECURSIVE RegisterJson(_, _, _)
RegisterJson(d, documents, t) ==
    IF documents = <<>> THEN [d |-> d, ids |-> <<>>, t |-> t, saved |-> FALSE]
    ELSE LET r == add_document_from_json(d, Head(documents), t)
             rest == RegisterJson(r.d, Tail(documents), t)
         IN  [d |-> rest.d,
              ids |-> IF r.ret # None THEN <<r.ret>> \o rest.ids ELSE rest.ids,
              t |-> rest.t,
              saved |-> r.saved \/ rest.saved]

Lists(S) == UNION {[1..n -> S] : n \in 0..MaxDocs}

Started(kind, op, r) ==
    /\ docs' = r.d
    /\ disk' = IF r.saved THEN _save_state(r.d, disk, "no") ELSE disk
    /\ now' = r.t
    /\ run' = [kind |-> kind, ids |-> r.ids, i |-> 1, stage |-> 1, results |-> <<>>,
               total |-> Len(r.ids), snap |-> r.d, invoked |-> {}, external |-> {},
               calls |-> {}, fs0 |-> DOMAIN fs]
    /\ last' = Call(op, "", "", FALSE, EmptyDocs)
    /\ UNCHANGED <<fs, proc, removed, succeeded, content, service, other>>

ProcessAllDocuments(urls) ==
    /\ Ready
    /\ Started("urls", "process_all_documents", RegisterUrls(docs, urls, now))

ProcessAllDocumentsFromJson(documents) ==
    /\ Ready
    /\ Started("json", "process_all_documents_from_json",
               RegisterJson(docs, documents, now))

\* results["documents"][doc_id] = ...; continue / fall through to the next stage
Entry_Completed(status, step) == [status |-> "completed", step |-> ""]
Entry(status, step) == [status |-> status, step |-> step]
NextDocument_Break(r, id, entry) ==
    [r EXCEPT !.results = Put(@, id, entry), !.i = Len(r.ids) + 1, !.stage = 1]
NextDocument(r, id, entry) ==
    [r EXCEPT !.results = Put(@, id, entry), !.i = @ + 1, !.stage = 1]
Advance_IgnoreFailure(r, id, step, ret) ==
    CASE ret = "raise" -> Idle
      [] r.stage = 3 -> NextDocument(r, id, IF ret = "True" THEN Entry("completed", "")
                                                           ELSE Entry("failed", step))
      [] OTHER -> [r EXCEPT !.stage = @ + 1]
Advance_RoundRobin(r, id, step, ret) ==
    CASE ret = "raise" -> Idle
      [] ret = "False" -> NextDocument(r, id, Entry("failed", step))
      [] ret = "True" /\ r.stage = 3 -> NextDocument(r, id, Entry("completed", ""))
      [] OTHER -> IF r.i < Len(r.ids)
                  THEN [r EXCEPT !.i = @ + 1]
                  ELSE [r EXCEPT !.i = 1, !.stage = @ + 1]
Advance(r, id, step, ret) ==
    CASE ret = "raise" -> Idle
      [] ret = "False" -> NextDocument(r, id, Entry("failed", step))
      [] ret = "True" /\ r.stage = 3 -> NextDocument(r, id, Entry("completed", ""))
      [] OTHER -> [r EXCEPT !.stage = @ + 1]
\* `calls` keeps, for each position of the input list, the stages called for
\* it and what each returned
Invoked(r, id, step, ext, ret) ==
    [r EXCEPT !.invoked = @ \cup {<<id, step>>},
              !.external = IF ext THEN @ \cup {<<id, step>>} ELSE @,
              !.calls = @ \cup {<<r.i, step, ret>>}]

\* one stage call of the loop at lines 731-750
Invoke(op, id, step, out, crash) ==
    LET res == Executor(step, docs, fs, id, out, now)
    IN  /\ Possible(docs, fs, id, out)
        /\ Effect(op, id, res, crash)
        /\ run' = IF crash = "no"
                  THEN Advance(Invoked(run, id, step, res.ext, res.ret), id, step, res.ret)
                  ELSE Idle
ExecutorName(step) ==
    CASE step = "download" -> "download_pdf"
      [] step = "agentic_process" -> "process_with_agentic_doc"
      [] step = "transform" -> "transform_to_pdf_processed"

RunStageUrls(out, crash) ==
    /\ proc = "up" /\ InProgress /\ run.kind = "urls"
    /\ LET id == run.ids[run.i]
           step == StepOrder[run.stage]
       IN  /\ out \in Outcomes(step)
           /\ Invoke(ExecutorName(step), id, step, out, crash)
    /\ UNCHANGED <<removed, content, service, other>>

\* one stage of the loop at lines 779-815: the recovery checks read the ledger
RunStageJson(out, crash) ==
    /\ proc = "up" /\ InProgress /\ run.kind = "json"
    /\ LET id == run.ids[run.i]
           step == StepOrder[run.stage]
       IN  /\ out \in Outcomes(step)
           /\ IF run.stage = 1 /\ docs[id].status = COMPLETED
              THEN /\ crash = "no"
                   /\ run' = NextDocument(run, id, Entry("completed", "recovered"))
                   /\ UNCHANGED <<docs, disk, fs, proc, now, last, succeeded>>
              ELSE IF docs[id].steps[step].status = COMPLETED
                   THEN /\ crash = "no"
                        /\ run' = Advance(run, id, step, "True")
                        /\ UNCHANGED <<docs, disk, fs, proc, now, last, succeeded>>
                   ELSE Invoke(ExecutorName(step), id, step, out, crash)
    /\ UNCHANGED <<removed, content, service, other>>

\* ---- the process dies inside an executor after its external call has
\* returned and before the artifact is opened for writing (lines 296-299,
\* 347-435, 489-498): nothing of the call is on disk
DieAfterCall(step, doc_id) ==
    /\ Ready
    /\ Returned(Executor(step, docs, fs, doc_id, "ok", now))
    /\ proc' = "down"
    /\ docs' = EmptyDocs
    /\ run' = Idle
    /\ last' = Call(ExecutorName(step), doc_id, "after_call", TRUE, EmptyDocs)
    /\ succeeded' = succeeded \cup {<<doc_id, step>>}
    /\ UNCHANGED <<disk, fs, now, removed, content, service, other>>

\* ---- the environment: the process dies and restarts, files are deleted or damaged
Crash ==
    /\ proc = "up"
    /\ proc' = "down"
    /\ docs' = EmptyDocs
    /\ run' = Idle
    /\ last' = NoCall
    /\ UNCHANGED <<disk, fs, now, removed, succeeded, content, service, other>>

\* PipelineManager.__init__: self.state = self._load_state()
Restart ==
    /\ proc # "up"
    /\ LET st == _load_state(disk)
       IN  /\ proc' = IF st.raised THEN "load_error" ELSE "up"
           /\ docs' = st.documents
    /\ run' = Idle
    /\ last' = Call("_load_state", "", IF _load_state(disk).raised THEN "raise" ELSE "",
                    FALSE, EmptyDocs)
    /\ UNCHANGED <<disk, fs, now, removed, succeeded, content, service, other>>

EnvRemoveFile(p) ==
    /\ p \in DOMAIN fs
    /\ removed < MaxRemovals
    /\ fs' = [q \in DOMAIN fs \ {p} |-> fs[q]]
    /\ removed' = removed + 1
    /\ last' = NoCall
    /\ content' = [q \in DOMAIN content \ {p} |-> content[q]]
    /\ UNCHANGED <<docs, disk, proc, now, run, succeeded, service, other>>

EnvDamageStateFile(kind) ==
    /\ proc # "up"
    /\ disk.kind # kind
    /\ disk' = OtherFile(kind)
    /\ last' = NoCall
    /\ UNCHANGED <<docs, fs, proc, now, run, removed, succeeded, content, service, other>>

\* ---- Spec: one source locator taken through registration, the executors
\* and the orchestrator entry points; the process may stop between two calls
\* and start again, and the environment may delete artifact files
OneUrl == {"u1"}
OneDescriptor == {Descriptor("u1", "a", "ar")}
OneId == {_get_document_id(u) : u \in OneUrl}
AllOutcomes == DownloadOutcomes \cup AgenticOutcomes \cup TransformOutcomes
Calls(crashes) ==
    \/ \E url \in OneUrl, crash \in crashes : AddDocument(url, None, None, crash)
    \/ \E doc_info \in OneDescriptor, crash \in crashes :
          AddDocumentFromJson(doc_info, crash)
    \/ \E doc_id \in OneId, out \in DownloadOutcomes, crash \in crashes :
          DownloadPdf(doc_id, out, crash)
    \/ \E doc_id \in OneId, out \in AgenticOutcomes, crash \in crashes :
          ProcessWithAgenticDoc(doc_id, out, crash)
    \/ \E doc_id \in OneId, out \in TransformOutcomes, crash \in crashes :
          TransformToPdfProcessed(doc_id, out, crash)
Runs(crashes) ==
    \/ \E urls \in Lists(OneUrl) : ProcessAllDocuments(urls)
    \/ \E documents \in Lists(OneDescriptor) : ProcessAllDocumentsFromJson(documents)
    \/ \E out \in AllOutcomes, crash \in crashes : RunStageUrls(out, crash)
    \/ \E out \in AllOutcomes, crash \in crashes : RunStageJson(out, crash)
Next ==
    \/ Calls({"no"})
    \/ Runs({"no"})
    \/ Crash
    \/ Restart
    \/ \E p \in DOMAIN fs : EnvRemoveFile(p)

Spec == Init /\ [][Next]_vars

\* ---- SpecCrash: the same calls, where the process may also die inside a
\* call, before or in the middle of writing the state file
NextCrash ==
    \/ Calls(AllCrashes)
    \/ \E step \in Steps, doc_id \in OneId : DieAfterCall(step, doc_id)
    \/ Restart

SpecCrash == Init /\ [][NextCrash]_vars

\* ---- SpecStore: the state store alone: one record, update_step_status
\* called directly, and a state file the environment may damage while the
\* process is down
NextStore ==
    \/ \E url \in OneUrl : AddDocument(url, None, None, "no")
    \/ \E doc_id \in OneId, step \in Steps, status \in StepStatuses :
          UpdateStepStatus(doc_id, step, status, "no")
    \/ Crash
    \/ Restart
    \/ \E kind \in FileKinds \ {"state"} : EnvDamageStateFile(kind)

SpecStore == Init /\ [][NextStore]_vars

\* ---- SpecRegistry: the two registration operations with every argument
\* shape, over two source locators
NextRegistry ==
    \/ \E url \in Urls, doc_id \in ExplicitIds \cup {None},
          name \in ExplicitNames \cup {None} : AddDocument(url, doc_id, name, "no")
    \/ \E doc_info \in Descriptors : AddDocumentFromJson(doc_info, "no")
    \/ Crash
    \/ Restart
    \/ \E kind \in {"absent"} : EnvDamageStateFile(kind)

SpecRegistry == Init /\ [][NextRegistry]_vars

\* ---- SpecRun: the two orchestrator entry points over lists of up to
\* MaxDocs different documents drawn from two source locators (Spec has the
\* lists that name one locator twice).  The descriptors name the files as
\* add_document names them from the locator, in the fallback output folder.
TwoDescriptors == {Descriptor("u1", "a.pdf", ""), Descriptor("u2", "b", "")}
DistinctLists(S) == {l \in Lists(S) : \A i, j \in DOMAIN l : l[i] = l[j] => i = j}
NextRun ==
    \/ \E urls \in DistinctLists(Urls) : ProcessAllDocuments(urls)
    \/ \E documents \in DistinctLists(TwoDescriptors) :
          ProcessAllDocumentsFromJson(documents)
    \/ \E out \in AllOutcomes : RunStageUrls(out, "no")
    \/ \E out \in AllOutcomes : RunStageJson(out, "no")

SpecRun == Init /\ [][NextRun]_vars

\* ---- SpecLost: the ledger has been lost.  PipelineManager.__init__ finds no
\* state file in a work directory that still holds artifacts of the document,
\* under the fallback output folder or under the folder of the descriptor.
LeftOver ==
    { [p \in {ExpectedPath(NewRecord("u1", "a.pdf", folder, 0), s) : s \in S} |-> "ok"] :
          folder \in {"", "ar"}, S \in SUBSET Steps }
InitLost ==
    /\ docs = _load_state(OtherFile("absent")).documents
    /\ disk = OtherFile("absent")
    /\ fs \in LeftOver
    /\ proc = "up"
    /\ now = 0
    /\ run = Idle
    /\ last = NoCall
    /\ removed = 0
    /\ succeeded = {}
    /\ content = <<>>
    /\ service = NoService
    /\ other = NotOpen
NextLost ==
    \/ Calls({"no"})
    \/ Runs({"no"})
    \/ Crash
    \/ Restart

SpecLost == InitLost /\ [][NextLost]_vars

\* ---- SpecSameName: process_all_documents_from_json over descriptors with
\* different source locators, the same name and the same output folder
SameNameDescriptors == {Descriptor("u1", "a.pdf", ""), Descriptor("u2", "a.pdf", "")}
NextSameName ==
    \/ \E documents \in DistinctLists(SameNameDescriptors) :
          ProcessAllDocumentsFromJson(documents)
    \/ \E out \in AllOutcomes : RunStageJson(out, "no")

SpecSameName == Init /\ [][NextSameName]_vars

\* ---- SpecTwo: a second PipelineManager is constructed on the same work
\* directory while the first is in use; the first works on u1, the second on
\* u2.  Each call of either manager is one step (the program has no threads;
\* the two managers are two objects or two processes taking turns).
\* PipelineManager.__init__ of the second manager: self.state = self._load_state()
OpenOther ==
    /\ proc = "up"
    /\ ~other.open
    /\ ~_load_state(disk).raised
    /\ other' = Open(_load_state(disk).documents)
    /\ UNCHANGED <<docs, disk, fs, proc, now, run, last, removed, succeeded, content,
                   service>>
\* a call of the second manager: it updates its own self.state and writes the
\* whole of it to the state file
OtherEffect(op, arg, res) ==
    /\ proc = "up"
    /\ other.open
    /\ res.ticks > 0 => now < MaxClock
    /\ fs' = res.f
    /\ succeeded' = IF Returned(res) THEN succeeded \cup {<<arg, StepOf(op)>>}
                                     ELSE succeeded
    /\ now' = now + res.ticks
    /\ disk' = Written(res, "no")
    /\ other' = Open(res.d)
    /\ last' = Call(op, arg, res.ret, res.ext, EmptyDocs)
    /\ UNCHANGED <<docs, proc, run, removed, content, service>>
OtherAddDocument(url) ==
    OtherEffect("add_document", url,
                Registered(add_document(other.documents, url, None, None, now), fs))
OtherDownloadPdf(doc_id, out) ==
    /\ Possible(other.documents, fs, doc_id, out)
    /\ OtherEffect("download_pdf", doc_id,
                   download_pdf(other.documents, fs, doc_id, out, now))
NextTwo ==
    \/ AddDocument("u1", None, None, "no")
    \/ \E out \in DownloadOutcomes : DownloadPdf("h1", out, "no")
    \/ OpenOther
    \/ OtherAddDocument("u2")
    \/ \E out \in DownloadOutcomes : OtherDownloadPdf("h2", out)

SpecTwo == Init /\ [][NextTwo]_vars

\* ---- SpecPages: one document carried through the stages, with the chunks
\* the extraction service returns and the answers of the structuring service.
\* what parse can return during one call of process_with_agentic_doc: it is
\* called when the executor gets as far as line 347
Parses(d, f, doc_id) ==
    /\ doc_id \in DOMAIN d
    /\ d[doc_id].steps["download"].status = COMPLETED
    /\ output_json_path(d[doc_id]) \notin DOMAIN f
    /\ d[doc_id].files["download"] \in DOMAIN f
Parsed(d, f, doc_id) == IF Parses(d, f, doc_id) THEN ParseResults ELSE {<<>>}
\* process_with_agentic_doc when parse returns `chunks` and the artifact is
\* written (lines 347-436)
ExtractPages(doc_id, chunks) ==
    /\ Ready
    /\ LET res == process_with_agentic_doc(docs, fs, doc_id, "ok", now)
       IN  /\ Effect("process_with_agentic_doc", doc_id, res, "no")
           /\ IF Returned(res)
              THEN /\ content' = Put(content, output_json_path(docs[doc_id]),
                                     agentic_output(doc_id, docs[doc_id], chunks))
                   /\ service' = [service EXCEPT !.parsed = chunks]
              ELSE UNCHANGED <<content, service>>
    /\ run' = Idle
    /\ UNCHANGED <<removed, other>>
\* transform_to_pdf_processed gets as far as json.load and _mistral_transform
\* (lines 485-489)
Structures(d, f, c, doc_id) ==
    /\ doc_id \in DOMAIN d
    /\ d[doc_id].steps["agentic_process"].status = COMPLETED
    /\ pdf_processed_path(d[doc_id]) \notin DOMAIN f
    /\ d[doc_id].files["agentic_process"] \in DOMAIN f
    /\ f[d[doc_id].files["agentic_process"]] = "ok"
    /\ d[doc_id].files["agentic_process"] \in DOMAIN c
\* the answers the structuring service can give during one call of the executor
Answers(d, f, c, doc_id) ==
    IF Structures(d, f, c, doc_id)
    THEN [MistralCalls(c[d[doc_id].files["agentic_process"]]) -> MistralOutcomes]
    ELSE {<<>>}
\* transform_to_pdf_processed when the structuring service gives `answers`
\* and the write of the final artifact ends as `out` (lines 483-515)
StructurePages(doc_id, answers, out) ==
    /\ Ready
    /\ IF Structures(docs, fs, content, doc_id)
       THEN LET agentic_json == content[docs[doc_id].files["agentic_process"]]
                pdf_processed == _mistral_transform(agentic_json, docs[doc_id], answers)
                res == IF Raises(pdf_processed)
                       THEN Updated(docs, fs, doc_id, "transform", FAILED, NoPath,
                                    "Error transformando", now, TRUE)
                       ELSE transform_to_pdf_processed(docs, fs, doc_id, out, now)
            IN  /\ Effect("transform_to_pdf_processed", doc_id, res, "no")
                /\ content' = IF res.ret = "True"
                              THEN Put(content, pdf_processed_path(docs[doc_id]), pdf_processed)
                              ELSE content
                /\ service' = [service EXCEPT !.answers = answers,
                                             !.calls = mistral_calls(agentic_json)]
       ELSE /\ Effect("transform_to_pdf_processed", doc_id,
                      transform_to_pdf_processed(docs, fs, doc_id, out, now), "no")
            /\ UNCHANGED <<content, service>>
    /\ run' = Idle
    /\ UNCHANGED <<removed, other>>
NextPages ==
    \/ \E url \in OneUrl : AddDocument(url, None, None, "no")
    \/ \E doc_id \in OneId : DownloadPdf(doc_id, "ok", "no")
    \/ \E doc_id \in OneId :
          \E chunks \in Parsed(docs, fs, doc_id) : ExtractPages(doc_id, chunks)
    \/ \E doc_id \in OneId, out \in {"ok", "write_fail"} :
          \E answers \in Answers(docs, fs, content, doc_id) :
              StructurePages(doc_id, answers, out)

SpecPages == Init /\ [][NextPages]_vars

\* ---- SpecGroundings: as SpecPages, for chunks with text that carry up to
\* MaxRepeats grounding references each (a chunk that spans pages, or has
\* several boxes on one page)
RepeatedChunks ==
    [chunk_type : ChunkTypes, text : {<<"t">>},
     grounding : SeqsUpTo((0..MaxExtPage) \cup {NoPageNum}, MaxRepeats)]
ParseResultsRepeated == SeqsUpTo(RepeatedChunks, MaxChunks)
ParsedRepeated(d, f, doc_id) ==
    IF Parses(d, f, doc_id) THEN ParseResultsRepeated ELSE {<<>>}
NextGroundings ==
    \/ \E url \in OneUrl : AddDocument(url, None, None, "no")
    \/ \E doc_id \in OneId : DownloadPdf(doc_id, "ok", "no")
    \/ \E doc_id \in OneId :
          \E chunks \in ParsedRepeated(docs, fs, doc_id) : ExtractPages(doc_id, chunks)
    \/ \E doc_id \in OneId, out \in {"ok", "write_fail"} :
          \E answers \in Answers(docs, fs, content, doc_id) :
              StructurePages(doc_id, answers, out)

SpecGroundings == Init /\ [][NextGroundings]_vars

(***************************************************************************)
(* Properties                                                              *)
(***************************************************************************)
StepStatus(doc, s) == doc.steps[s].status
AllCompleted(doc) == \A s \in Steps : StepStatus(doc, s) = COMPLETED
AnyFailed(doc) == \E s \in Steps : StepStatus(doc, s) = FAILED
Registered1 == "h1" \in DOMAIN docs

\* C1: in every reachable state a record's overall status is Completed if and
\* only if its three step statuses are all Completed.
C1_StatusCompletedIffAllSteps ==
    \A id \in DOMAIN docs : (docs[id].status = COMPLETED) <=> AllCompleted(docs[id])

\* C2: whatever the combination of the three step statuses over {Pending,
\* Completed, Failed}, the overall status update_step_status leaves is
\* Completed when all steps are Completed, Failed when some step is Failed,
\* and Pending or Downloaded otherwise.
C2_StatusDerivation ==
    \A id \in DOMAIN docs :
        /\ AllCompleted(docs[id]) => docs[id].status = COMPLETED
        /\ AnyFailed(docs[id]) => docs[id].status = FAILED
        /\ (~AllCompleted(docs[id]) /\ ~AnyFailed(docs[id]))
               => docs[id].status \in {PENDING, DOWNLOADED}
\* the example of the claim: download and extract Completed, structure Failed
C2_Witness ==
    /\ Registered1
    /\ last.op = "update_step_status"
    /\ StepStatus(docs["h1"], "download") = COMPLETED
    /\ StepStatus(docs["h1"], "agentic_process") = COMPLETED
    /\ StepStatus(docs["h1"], "transform") = FAILED
    /\ docs["h1"].status = FAILED

\* C3: with no step Failed and not every step Completed, the overall status is
\* Downloaded once the download step is Completed and Pending while it is
\* Pending.
C3_PartialProgress ==
    \A id \in DOMAIN docs :
        (~AnyFailed(docs[id]) /\ ~AllCompleted(docs[id]))
            => docs[id].status = IF StepStatus(docs[id], "download") = COMPLETED
                                 THEN DOWNLOADED
                                 ELSE PENDING

\* C4: a record holds an artifact path for a step if and only if that step's
\* status is Completed.
C4_PathIffCompleted ==
    \A id \in DOMAIN docs : \A s \in Steps :
        (docs[id].files[s] # NoPath) <=> (StepStatus(docs[id], s) = COMPLETED)

\* C5: when a call that changes the in-memory documents returns, the state
\* file holds exactly the in-memory documents.
C5_SavedOnReturn ==
    [][(proc = "up" /\ proc' = "up" /\ docs' # docs) => disk' = StateFile(docs')]_vars
C5_Witness ==
    /\ Registered1
    /\ proc = "up"
    /\ last.op = "transform_to_pdf_processed"
    /\ last.ret = "True"
    /\ docs["h1"].status = COMPLETED
    /\ disk = StateFile(docs)

\* C6: when the process dies in the middle of _save_state, the next load reads
\* the previous version of the documents or the version being written.
C6_CrashKeepsAVersion ==
    [][(proc = "up" /\ proc' = "down" /\ last'.ret = "during")
          => /\ ~_load_state(disk').raised
             /\ _load_state(disk').documents
                    \in {_load_state(disk).documents, last'.saving}]_vars

\* C7: _load_state never fails: it gives the persisted documents when the file
\* holds a mapping with a documents entry, and a fresh empty state otherwise.
C7_LoadNeverFails ==
    /\ proc # "load_error"
    /\ last.op = "_load_state"
           => docs = IF disk.kind = "state" THEN disk.documents ELSE EmptyDocs

\* C8: a registration of a source locator that already has a record returns
\* the id of that record, leaves one record for the locator and changes
\* nothing.
WithUrl(d, url) == {id \in DOMAIN d : d[id].url = url}
C8_IdempotentRegistration ==
    [][(/\ proc = "up" /\ proc' = "up"
        /\ last'.op \in {"add_document", "add_document_from_json"}
        /\ last'.ret # None
        /\ WithUrl(docs, last'.arg) # {})
          => /\ last'.ret \in WithUrl(docs, last'.arg)
             /\ Cardinality(WithUrl(docs', last'.arg)) = 1
             /\ docs' = docs]_vars

\* C9: in a run over a document that had download and extract Completed and
\* structure Pending when the run started, the download and extract steps keep
\* their status, timestamp and artifact path, and their external work is not
\* done again.
ResumeAtStructure(doc) ==
    /\ StepStatus(doc, "download") = COMPLETED
    /\ StepStatus(doc, "agentic_process") = COMPLETED
    /\ StepStatus(doc, "transform") = PENDING
InRun(id) == \E k \in 1..Len(run.ids) : run.ids[k] = id
C9_ResumeLeavesEarlierSteps ==
    \A id \in DOMAIN run.snap :
        (run.kind # "idle" /\ InRun(id) /\ ResumeAtStructure(run.snap[id]))
            => \A s \in {"download", "agentic_process"} :
                   /\ docs[id].steps[s] = run.snap[id].steps[s]
                   /\ docs[id].files[s] = run.snap[id].files[s]
                   /\ <<id, s>> \notin run.external

\* C10: a run invokes no stage executor for a document whose overall status
\* was Completed when the run started, and leaves its record as it was.
C10_CompletedIsSkipped ==
    \A id \in DOMAIN run.snap :
        (run.kind # "idle" /\ InRun(id) /\ run.snap[id].status = COMPLETED)
            => /\ \A s \in Steps : <<id, s>> \notin run.invoked
               /\ docs[id] = run.snap[id]

\* C11: in a run, once a stage has returned failure for a document of the
\* input list no later stage is called for it, and every document of the list
\* the loop has passed was taken through its stages: up to the stage that
\* returned failure, or to the end.
StageIndex(s) == CHOOSE n \in 1..Len(StepOrder) : StepOrder[n] = s
FailedAt(k) == {c \in run.calls : c[1] = k /\ c[3] = "False"}
C11_FailureStopsDocumentOnly ==
    run.kind # "idle" =>
        /\ \A c \in run.calls : \A c2 \in run.calls :
               (c[3] = "False" /\ c2[1] = c[1]) => StageIndex(c2[2]) <= StageIndex(c[2])
        /\ \A k \in 1..Len(run.ids) :
               k < run.i => (FailedAt(k) # {} \/ AllCompleted(docs[run.ids[k]]))
\* the first document fails at its download, the second one reaches its
\* last stage
C11_Witness ==
    /\ run.kind # "idle"
    /\ Len(run.ids) = 2
    /\ run.ids[1] # run.ids[2]
    /\ <<1, "download", "False">> \in run.calls
    /\ <<2, "transform", "True">> \in run.calls
    /\ run.i = 3

\* C12: across calls, process deaths and restarts, an executor never issues
\* the external call of a step of a document for which that call has already
\* returned successfully.
CallStep == now' # now \/ (proc = "up" /\ proc' = "down")
C12_NoRepeatedExternalCall ==
    [][(CallStep /\ last'.ext) => <<last'.arg, StepOf(last'.op)>> \notin succeeded]_vars

\* a step of the machine in which the executor of `step` was called and
\* returned to its caller
ExecutorReturned(step) ==
    /\ proc = "up" /\ proc' = "up"
    /\ StepOf(last'.op) = step
    /\ (last' # last \/ now' # now)

PreconditionHolds(doc, s) ==
    CASE s = "download" -> TRUE
      [] s = "agentic_process" -> StepStatus(doc, "download") = COMPLETED
      [] s = "transform" -> StepStatus(doc, "agentic_process") = COMPLETED
FreshWithArtifacts(id) ==
    /\ run.kind # "idle"
    /\ InRun(id)
    /\ id \in DOMAIN run.snap
    /\ \A s \in Steps :
           /\ StepStatus(run.snap[id], s) = PENDING
           /\ ExpectedPath(run.snap[id], s) \in run.fs0
C14_ArtifactsDecide ==
    \A id \in Ids :
        FreshWithArtifacts(id)
            => /\ \A s \in Steps : <<id, s>> \notin run.external
               /\ run.i > Len(run.ids)
                      => (AllCompleted(docs[id]) /\ docs[id].status = COMPLETED)
C14_Witness ==
    /\ FreshWithArtifacts("h1")
    /\ run.i > Len(run.ids)
    /\ run.invoked = {<<"h1", s>> : s \in Steps}
    /\ run.external = {}
    /\ docs["h1"].status = COMPLETED

\* C15: a call of download_pdf whose transfer fails (the external call is
\* made and no file is written) leaves the download step Failed, appends
\* exactly one error entry, for the download step, to the record's errors,
\* and returns False.
C15_TransferFailure ==
    [][(/\ ExecutorReturned("download")
        /\ last'.ext
        /\ fs' = fs)
          => /\ StepStatus(docs'[last'.arg], "download") = FAILED
             /\ Len(docs'[last'.arg].errors) = Len(docs[last'.arg].errors) + 1
             /\ SubSeq(docs'[last'.arg].errors, 1, Len(docs[last'.arg].errors))
                    = docs[last'.arg].errors
             /\ docs'[last'.arg].errors[Len(docs'[last'.arg].errors)].step = "download"
             /\ last'.ret = "False"]_vars
\* a second failed transfer: two error entries, one for each call
C15_Witness ==
    /\ Registered1
    /\ last.op = "download_pdf"
    /\ last.ext
    /\ last.ret = "False"
    /\ pdf_path(docs["h1"]) \notin DOMAIN fs
    /\ StepStatus(docs["h1"], "download") = FAILED
    /\ Len(docs["h1"].errors) = 2

\* C16: in a run over a document that had a Failed step when the run started,
\* the external work of a step is done again only if the step was not
\* Completed, a step that the run turns Completed has had its external work
\* done again, and a stage whose external call succeeds leaves its step
\* Completed and the overall status other than Failed.
RerunAfterFailure(id) ==
    /\ run.kind # "idle"
    /\ InRun(id)
    /\ id \in DOMAIN run.snap
    /\ AnyFailed(run.snap[id])
C16_RerunRetriesTheRest ==
    \A id \in Ids :
        RerunAfterFailure(id)
            => \A s \in Steps :
                  /\ <<id, s>> \in run.external
                         => StepStatus(run.snap[id], s) # COMPLETED
                  /\ (StepStatus(run.snap[id], s) # COMPLETED
                          /\ StepStatus(docs[id], s) = COMPLETED)
                         => <<id, s>> \in run.external
                  /\ (/\ StepOf(last.op) = s /\ last.arg = id
                      /\ last.ext /\ last.ret = "True")
                         => (StepStatus(docs[id], s) = COMPLETED /\ docs[id].status # FAILED)

\* C17: whenever process_with_agentic_doc returns with the extract step
\* Failed, no file is at the expected path of the extract artifact.
C17_NoPartialExtractArtifact ==
    \A id \in DOMAIN docs :
        (/\ last.op = "process_with_agentic_doc"
         /\ last.arg = id
         /\ proc = "up"
         /\ StepStatus(docs[id], "agentic_process") = FAILED)
            => output_json_path(docs[id]) \notin DOMAIN fs

\* C18: the extraction service is called for a document only while its
\* download step is Completed, and the structuring service only while its
\* extract step is Completed.
C18_PredecessorCompleted ==
    [][\A s \in {"agentic_process", "transform"} :
          (ExecutorReturned(s) /\ last'.ext)
             => /\ last'.arg \in DOMAIN docs
                /\ PreconditionHolds(docs[last'.arg], s)]_vars
\* the structuring service has been called and the artifact written
C18_Witness ==
    /\ Registered1
    /\ last.op = "transform_to_pdf_processed"
    /\ last.ext
    /\ last.ret = "True"
    /\ StepStatus(docs["h1"], "agentic_process") = COMPLETED
    /\ <<"h1", "agentic_process">> \in succeeded

\* C19: a stage executor called for a registered document returns True or
\* False to its caller, whatever the collaborators and file I/O do: no
\* exception leaves it.
C19_NoExceptionLeavesExecutor ==
    (proc = "up" /\ StepOf(last.op) # None /\ last.arg \in DOMAIN docs)
        => last.ret \in {"True", "False"}

\* C20: an extract or structure executor called while its predecessor step is
\* not Completed leaves its own step Failed and the overall status Failed.
C20_PreconditionFailureRecorded ==
    [][\A s \in {"agentic_process", "transform"} :
          (/\ ExecutorReturned(s)
           /\ last'.arg \in DOMAIN docs
           /\ ~PreconditionHolds(docs[last'.arg], s))
             => /\ StepStatus(docs'[last'.arg], s) = FAILED
                /\ docs'[last'.arg].status = FAILED]_vars

\* C23: add_document_from_json given a descriptor without a source locator or
\* without a name reports the failure (it returns None), creates no record
\* and leaves the documents in memory and the state file as they were.
Invalid(doc_info) == doc_info.source = None \/ doc_info.name = None
C23_InvalidDescriptorRejected ==
    /\ [](\A doc_info \in Descriptors :
             Invalid(doc_info)
                => LET r == add_document_from_json(docs, doc_info, now)
                   IN  r.ret = None /\ r.d = docs /\ ~r.saved)
    /\ [][(/\ proc = "up" /\ proc' = "up"
           /\ last'.op = "add_document_from_json"
           /\ last'.ret = None)
             => (docs' = docs /\ disk' = disk)]_vars
\* a descriptor was rejected by a store that holds a record
C23_Witness ==
    /\ proc = "up"
    /\ last.op = "add_document_from_json"
    /\ last.ret = None
    /\ docs # EmptyDocs
    /\ disk = StateFile(docs)

\* C24: when a run over documents with different source locators has passed
\* its last document, the summary holds one entry for each document of the
\* run and no other: "failed" with the first stage that returned failure, or
\* "completed" when no stage did.
RunEnded == run.kind # "idle" /\ run.i > Len(run.ids)
C24_SummaryPerDocument ==
    RunEnded =>
        /\ DOMAIN run.results = {run.ids[k] : k \in 1..Len(run.ids)}
        /\ run.total = Len(run.ids)
        /\ \A k \in 1..Len(run.ids) :
               LET entry == run.results[run.ids[k]]
               IN  IF FailedAt(k) = {}
                   THEN entry.status = "completed" /\ AllCompleted(docs[run.ids[k]])
                   ELSE /\ entry.status = "failed"
                        /\ <<k, entry.step, "False">> \in run.calls
                        /\ \A c \in run.calls :
                               c[1] = k => StageIndex(c[2]) <= StageIndex(entry.step)
\* two descriptors: the download of the first fails, the second succeeds
C24_Witness ==
    /\ RunEnded
    /\ run.kind = "json"
    /\ run.ids = <<"h1", "h2">>
    /\ run.results = [id \in {"h1", "h2"} |->
                          IF id = "h1" THEN Entry("failed", "download")
                                       ELSE Entry("completed", "")]

\* C25: in every reachable state the original_filename of every record ends
\* in .pdf, whichever operation registered it and whether the name was given
\* or derived from the locator.
C25_NameHasPdfSuffix ==
    \A id \in DOMAIN docs : docs[id].original_filename \in PdfNames

\* C26: in every reachable state every record is stored under the id that
\* _get_document_id derives from its own url.
C26_KeyIsIdOfLocator ==
    \A id \in DOMAIN docs : id = _get_document_id(docs[id].url)

\* C27: no step of the program changes the url, original_filename, metadata
\* or created_at of a record that exists before and after the step.
Identity(doc) == <<doc.url, doc.original_filename, doc.metadata, doc.created_at>>
C27_IdentityIsImmutable ==
    [][\A id \in DOMAIN docs \cap DOMAIN docs' :
           Identity(docs'[id]) = Identity(docs[id])]_vars
\* a record created at time 0 has gone through the three stages and a re-run
C27_Witness ==
    /\ Registered1
    /\ run.kind # "idle"
    /\ run.i > Len(run.ids)
    /\ run.invoked # {}
    /\ docs["h1"].status = COMPLETED
    /\ docs["h1"].created_at = 0
    /\ StepStatus(docs["h1"], "download") = COMPLETED
    /\ docs["h1"].steps["transform"].timestamp > 0

\* C28: a stage executor called for one document and returning to its caller
\* (with success, failure or an exception) leaves every other record of the
\* store exactly as it was, and adds or removes no record.
C28_OnlyOwnRecordChanges ==
    [][\A s \in Steps :
          ExecutorReturned(s) =>
              /\ DOMAIN docs' = DOMAIN docs
              /\ \A id \in DOMAIN docs \ {last'.arg} : docs'[id] = docs[id]]_vars
\* an executor has just failed for h1 while h2 holds a downloaded file and a
\* failed extract step
C28_Witness ==
    /\ {"h1", "h2"} \subseteq DOMAIN docs
    /\ last.op \in {"download_pdf", "process_with_agentic_doc", "transform_to_pdf_processed"}
    /\ last.arg = "h1"
    /\ last.ret = "False"
    /\ docs["h1"].status = FAILED
    /\ StepStatus(docs["h2"], "download") = COMPLETED
    /\ StepStatus(docs["h2"], "agentic_process") = FAILED

\* C29: within one run the stage calls follow the input order: every call
\* made so far is for the current position of the list or an earlier one, and a
\* new call is never for a position before one that has already been called.
\* (A stage call is one step of the machine: it has returned when the next begins.)
C29_SequentialInInputOrder ==
    /\ [](\A c \in run.calls : c[1] <= run.i)
    /\ [][\A c \in run'.calls \ run.calls :
             \A c0 \in run.calls : c0[1] <= c[1]]_vars
\* the first document went through its three stages, then the second was called
C29_Witness ==
    /\ Len(run.ids) = 2
    /\ \A s \in Steps : <<1, s, "True">> \in run.calls
    /\ \E c \in run.calls : c[1] = 2

\* the extract artifact of a document, once the extract stage has written it
HasExtract(id) == id \in DOMAIN docs /\ output_json_path(docs[id]) \in DOMAIN content
Extract(id) == content[output_json_path(docs[id])]
\* the final artifact of a document, once the structure stage has written it
HasFinal(id) == id \in DOMAIN docs /\ pdf_processed_path(docs[id]) \in DOMAIN content
Final(id) == content[pdf_processed_path(docs[id])]
\* the id under which the k-th chunk returned by the extraction service is persisted
PersistedId(parsed, k) ==
    IF IsFigure(parsed[k])
    THEN <<"figure", Cardinality({j \in 1..(k - 1) : IsFigure(parsed[j])})>>
    ELSE <<"chunk", k - 1>>
\* the units of the extract artifact in which the k-th returned chunk is looked up
PersistedUnits(artifact, parsed, k) ==
    IF IsFigure(parsed[k]) THEN artifact.document.figures ELSE artifact.document.chunks

\* C22: every page number persisted in the extract artifact, of an ordinary
\* unit or of a figure, is the 0-indexed page the extraction service returned
\* plus one, and a unit the service put on page 0 is grouped under page 1 by
\* the structure stage.
C22_PagesAreOneIndexed ==
    \A id \in OneId :
        HasExtract(id) =>
            \A k \in 1..Len(service.parsed) :
                LET units == PersistedUnits(Extract(id), service.parsed, k)
                    ext == service.parsed[k].grounding
                IN  \E n \in 1..Len(units) :
                        /\ units[n].id = PersistedId(service.parsed, k)
                        /\ Len(units[n].grounding) = Len(ext)
                        /\ \A g \in 1..Len(ext) :
                               ext[g] # NoPageNum =>
                                   /\ units[n].grounding[g].page = ext[g] + 1
                                   /\ ext[g] = 0 =>
                                          \E m \in 1..Len(GroupByPage(units)[1]) :
                                              GroupByPage(units)[1][m] = units[n]
\* the service returned a text chunk on page 0 and a figure on page 1, and
\* the structure stage has written the final artifact
C22_Witness ==
    /\ HasExtract("h1")
    /\ HasFinal("h1")
    /\ Len(service.parsed) = 2
    /\ service.parsed[1] = [chunk_type |-> "text", text |-> <<"t">>, grounding |-> <<0>>]
    /\ service.parsed[2] = [chunk_type |-> "figure", text |-> <<"t">>, grounding |-> <<1>>]
    /\ Extract("h1").document.figures[1].grounding[1].page = 2

\* the page numbers found in the groundings of a list of persisted units
ObservedIn(units) ==
    UNION {{units[n].grounding[g].page : g \in 1..Len(units[n].grounding)} :
              n \in 1..Len(units)} \ {NoPageNum}
\* the largest page number observed in a list of units, 1 when there is none
LargestPage(pages) == IF pages = {} THEN 1 ELSE Max(pages)
Contains(text, part) ==
    \E a \in 0..Len(text) :
        a + Len(part) <= Len(text) /\ SubSeq(text, a + 1, a + Len(part)) = part
\* the page list is 1..n in ascending order, n is the reported total, and the
\* text of every ordinary unit without grounding is on page 1
PageListIs(final, extract, n) ==
    /\ Len(final.content) = n
    /\ final.metadata.total_pages = n
    /\ \A k \in 1..Len(final.content) : final.content[k].page_number = k
    /\ \A c \in 1..Len(extract.document.chunks) :
           extract.document.chunks[c].grounding = <<>> =>
               Contains(final.content[1].text, extract.document.chunks[c].content)

\* C30: the page list of the final artifact has exactly one object for every
\* page 1..N in ascending order, where N is the largest page number observed in
\* the extract artifact, among ordinary units and figures (1 when none is
\* observed), and is the reported total page count; every ordinary unit without
\* grounding is placed on page 1.
C30_PagesOneToLargestObserved ==
    \A id \in OneId :
        (HasFinal(id) /\ HasExtract(id)) =>
            PageListIs(Final(id), Extract(id),
                       LargestPage(ObservedIn(Extract(id).document.chunks)
                                   \cup ObservedIn(Extract(id).document.figures)))
\* the same, N being the largest page observed among the ordinary units alone
C30_PagesOneToLargestChunkPage ==
    \A id \in OneId :
        (HasFinal(id) /\ HasExtract(id)) =>
            PageListIs(Final(id), Extract(id),
                       LargestPage(ObservedIn(Extract(id).document.chunks)))

\* the record a page or figure carries for an answer of the structuring
\* service: the service's result, or the fallback placeholder when the call failed
PageCarries(record, text, answer) ==
    IF answer = "record"
    THEN record = ServiceRecord(text)
    ELSE /\ record.description = "Page content from aeronautical document"
         /\ record.ocr_contents = Truncate(text, RawContentPage)
ImageCarries(record, text, answer, page_num, index) ==
    IF answer = "record"
    THEN record = ServiceRecord(text)
    ELSE /\ record.description = "Image from aeronautical document"
         /\ record.file_name = <<"imagen", page_num, index>>
         /\ record.ocr_contents = Truncate(text, RawContentImage)
\* every page and figure the service was called for carries its record
FallbackWhereFailed(final, extract, answers) ==
    \A call \in DOMAIN answers :
        LET page_num == call[2]
            page == final.content[page_num]
        IN  /\ page_num \in 1..Len(final.content)
            /\ IF call[1] = "page"
               THEN PageCarries(page.structured_page_content, page.text, answers[call])
               ELSE LET figs == figures_dict(extract.document.figures)[page_num]
                        pos == Cardinality({j \in 1..(call[3] + 1) : ~Blank(figs[j].text)})
                    IN  /\ pos \in 1..Len(page.structured_image_content)
                        /\ ImageCarries(page.structured_image_content[pos],
                                        figs[call[3] + 1].text, answers[call],
                                        page_num, call[3])

HasText(text) == \E k \in 1..Len(text) : text[k] \notin {" ", "\n"}
\* how many times the structuring service was called with the given key
TimesCalled(call) ==
    Cardinality({k \in 1..Len(service.calls) : service.calls[k].call = call})

\* C31: in the structure stage that wrote the final artifact, the structuring
\* service was called exactly once, with the page's raw text, for each page
\* whose raw text has a non-whitespace character, and not at all for a page
\* whose raw text is empty or whitespace, which carries the empty-page record.
C31_OneCallPerPageWithText ==
    \A id \in OneId :
        HasFinal(id) =>
            \A k \in 1..Len(Final(id).content) :
                LET page == Final(id).content[k]
                IN  IF HasText(page.text)
                    THEN /\ TimesCalled(<<"page", page.page_number, 0>>) = 1
                         /\ \E c \in 1..Len(service.calls) :
                                /\ service.calls[c].call = <<"page", page.page_number, 0>>
                                /\ service.calls[c].text = page.text
                    ELSE /\ TimesCalled(<<"page", page.page_number, 0>>) = 0
                         /\ page.structured_page_content.description = "Empty page"
                         /\ page.structured_page_content.ocr_contents = <<>>
\* a final artifact with a whitespace-only page 1 and a page 2 with text
C31_Witness ==
    /\ HasFinal("h1")
    /\ Len(Final("h1").content) = 2
    /\ Final("h1").content[1].text = <<" ">>
    /\ Final("h1").content[2].text = <<"t">>
    /\ TimesCalled(<<"page", 2, 0>>) = 1

\* the pages a persisted unit is grounded to: page 1 when it has no grounding
\* or a grounding without page
GroundedPages(unit) ==
    IF unit.grounding = <<>> THEN {1}
    ELSE {IF unit.grounding[g].page = NoPageNum THEN 1 ELSE unit.grounding[g].page :
              g \in 1..Len(unit.grounding)}
\* the figures of the extract artifact with text that are grounded to a page
FiguresWithTextOn(extract, page_num) ==
    {n \in 1..Len(extract.document.figures) :
        /\ HasText(extract.document.figures[n].text)
        /\ page_num \in GroundedPages(extract.document.figures[n])}
\* the calls of the structuring service for the figures of a page
ImageCallsOn(page_num) ==
    {c \in 1..Len(service.calls) :
        service.calls[c].call[1] = "image" /\ service.calls[c].call[2] = page_num}

\* C32: for every page of the final artifact the structuring service was
\* called once for each figure with non-blank text found on that page, and the
\* page's figure list holds one record per such figure; a figure with blank
\* text has no call and no record.
C32_OneCallPerFigureWithText ==
    \A id \in OneId :
        (HasFinal(id) /\ HasExtract(id)) =>
            \A k \in 1..Len(Final(id).content) :
                LET page == Final(id).content[k]
                    figs == FiguresWithTextOn(Extract(id), page.page_number)
                IN  /\ Cardinality(ImageCallsOn(page.page_number)) = Cardinality(figs)
                    /\ Len(page.structured_image_content) = Cardinality(figs)

\* a page of the final artifact holds a record made from the given figure text
RepresentedOn(final, page_num, text) ==
    /\ page_num \in 1..Len(final.content)
    /\ \E j \in 1..Len(final.content[page_num].structured_image_content) :
           final.content[page_num].structured_image_content[j].ocr_contents
               = Truncate(text, RawContentImage)

\* C33: every figure of the extract artifact with non-blank text has a record
\* in the final artifact on each page it is grounded to (page 1 when it has no
\* grounding), also when that page is beyond the last page of the ordinary units.
C33_NoFigureDropped ==
    \A id \in OneId :
        (HasFinal(id) /\ HasExtract(id)) =>
            \A n \in 1..Len(Extract(id).document.figures) :
                LET fig == Extract(id).document.figures[n]
                IN  HasText(fig.text) =>
                        \A page_num \in GroundedPages(fig) :
                            RepresentedOn(Final(id), page_num, fig.text)

\* the texts of the ordinary units grounded on a page, in their original
\* order, each unit once
TextsOn(extract, page_num) ==
    LET here == SelectSeq(extract.document.chunks,
                          LAMBDA u : page_num \in GroundedPages(u))
    IN  [k \in 1..Len(here) |-> here[k].content]

\* C34: the raw text of every page of the final artifact is the texts of the
\* ordinary units grounded on that page, in their original order, joined by
\* newlines, each unit contributing once per page whatever the number of its
\* grounding references to that page.
C34_PageTextOncePerUnit ==
    \A id \in OneId :
        (HasFinal(id) /\ HasExtract(id)) =>
            \A k \in 1..Len(Final(id).content) :
                Final(id).content[k].text
                    = Join(TextsOn(Extract(id), Final(id).content[k].page_number))

\* the step of a registered document is Completed in the ledger
StepCompleted(id, s) == id \in DOMAIN docs /\ StepStatus(docs[id], s) = COMPLETED

\* C35: while the environment has removed no artifact file, a step that has
\* reached Completed is Completed whenever the program is up afterwards
\* (through every executor call, orchestrator run and restart), and no
\* executor makes the external call of a step that is Completed.
C35_CompletedStaysCompleted ==
    /\ \A id \in OneId : \A s \in Steps :
           [](StepCompleted(id, s)
                 => []((removed = 0 /\ proc = "up") => StepCompleted(id, s)))
    /\ [][(CallStep /\ last'.ext /\ removed = 0)
              => ~StepCompleted(last'.arg, StepOf(last'.op))]_vars
\* download_pdf has been called again for a document whose three steps were
\* Completed: it made no transfer and the steps are Completed still
C35_Witness ==
    /\ removed = 0
    /\ "h1" \in DOMAIN docs
    /\ AllCompleted(docs["h1"])
    /\ last.op = "download_pdf"
    /\ last.ret = "True"
    /\ ~last.ext
    /\ docs["h1"].steps["download"].timestamp > docs["h1"].steps["transform"].timestamp

\* C36: two records with distinct ids never have the same expected artifact
\* path for the same step.
C36_PathsAreDistinct ==
    \A id1 \in DOMAIN docs : \A id2 \in DOMAIN docs :
        id1 # id2 =>
            \A s \in Steps : ExpectedPath(docs[id1], s) # ExpectedPath(docs[id2], s)

\* C37: when a run has ended, every document of the summary is in the
\* persisted ledger; its summary status is 'completed' exactly when its overall
\* status there is Completed, and when it is reported 'failed' at a stage that
\* stage's step is Failed there.
C37_SummaryMatchesLedger ==
    RunEnded =>
        \A id \in DOMAIN run.results :
            /\ disk.kind = "state"
            /\ id \in DOMAIN disk.documents
            /\ run.results[id].status = "completed"
                   <=> disk.documents[id].status = COMPLETED
            /\ run.results[id].status = "failed"
                   => StepStatus(disk.documents[id], run.results[id].step) = FAILED
\* a run of two documents has ended with the first reported completed and the
\* second reported failed at its download
C37_Witness ==
    /\ RunEnded
    /\ run.ids = <<"h1", "h2">>
    /\ run.results["h1"].status = "completed"
    /\ run.results["h2"] = Entry("failed", "download")
    /\ disk.documents["h1"].status = COMPLETED
    /\ disk.documents["h2"].status = FAILED

\* C38: when a run has ended, the total number of documents its summary
\* reports is the number of per-document entries of the summary.
C38_TotalIsNumberOfEntries ==
    RunEnded => run.total = Cardinality(DOMAIN run.results)

\* C39: while the environment has removed no artifact file, whenever the
\* program is up a step that is Completed in the ledger has a file at its
\* recorded artifact path, and that path is the one the executor derives from
\* the record's name and output folder.
C39_CompletedHasItsFile ==
    (removed = 0 /\ proc = "up") =>
        \A id \in DOMAIN docs : \A s \in Steps :
            StepStatus(docs[id], s) = COMPLETED =>
                /\ docs[id].files[s] \in DOMAIN fs
                /\ docs[id].files[s] = ExpectedPath(docs[id], s)

\* the process died and restarted, and the reloaded ledger shows the download
\* and extract steps Completed, with their files in place
C39_Witness ==
    /\ removed = 0
    /\ proc = "up"
    /\ last.op = "_load_state"
    /\ StepCompleted("h1", "download")
    /\ StepCompleted("h1", "agentic_process")
    /\ docs["h1"].files["agentic_process"] = output_json_path(docs["h1"])
    /\ output_json_path(docs["h1"]) \in DOMAIN fs

\* C40: with two managers open on the same state file, the first working on
\* u1 and the second on u2, once each has registered its document the state
\* file holds the record of each document as its manager last left it.
C40_NoLostUpdate ==
    (other.open /\ "h1" \in DOMAIN docs /\ "h2" \in DOMAIN other.documents) =>
        /\ disk.kind = "state"
        /\ {"h1", "h2"} \subseteq DOMAIN disk.documents
        /\ disk.documents["h1"] = docs["h1"]
        /\ disk.documents["h2"] = other.documents["h2"]

====
